---- MODULE Spec2Model ----
(***************************************************************************)
(* script.py: the concurrent client harness.  A main thread builds         *)
(* NUM_CLIENTS threads, starts them all, joins them all and prints the     *)
(* end-of-run marker.  Each thread runs client(id): socket, connect,       *)
(* sendall, sleep, recv, print, with one except handler and one finally    *)
(* block around the whole body.                                            *)
(*                                                                         *)
(* Thread creation itself (Thread.start) is taken to succeed; the events   *)
(* of the environment are the results of the socket calls.                 *)
(***************************************************************************)
EXTENDS Integers, Sequences, FiniteSets, TLC

\* Largest NUM_CLIENTS explored (the script sets 20; every value 1..MaxClients
\* is explored).
MaxClients == 2

\* s.recv(1024): the most bytes one read returns.
RecvBufSize == 1024

VARIABLES
    HOST,         \* script.py:5, the configured host, a string
    PORT,         \* script.py:6, the configured port
    NUM_CLIENTS,  \* script.py:7, the configured number of clients
    endpoint,     \* the server at HOST:PORT: "listening" or "unreachable"
    mainpc,       \* the main thread's position (script.py:32-39)
    t,            \* the loop variable of the main thread's for loops
    pc,           \* pc[id]: the position of the thread running client(id)
    s,            \* s[id]: the local variable s of client(id) and its socket's state
    data,         \* data[id]: the local variable data of client(id)
    e,            \* e[id]: the exception caught by the except clause, "" if none
                  \* (kept for the record after the clause, where nothing reads it)
    raised,       \* raised[id]: the exception that left client(id), "" if none
    calls,        \* calls[id]: how many times each socket call was issued
    net,          \* net[id]: what the socket calls of client(id) returned, in order
    sent,         \* sent[id]: the bytes client(id) handed to sendall
    steps,        \* steps[id]: the statements client(id) has executed, in order
    stdout,       \* the lines printed so far, in order
    HTTP_COOKIE,  \* bonus_session_test.py: the Cookie header of the latest request
    jar,          \* the cookies the client of bonus_session_test.py holds
    requests,     \* how many requests bonus_session_test.py has answered
    response,     \* what it answered to the latest, and the jar before it
    replayed      \* whether every request so far carried exactly the jar

\* The variables of script.py and those of bonus_session_test.py.
harness == <<HOST, PORT, NUM_CLIENTS, endpoint, mainpc, t, pc, s, data, e, raised, calls,
             net, sent, steps, stdout>>

cgi == <<HTTP_COOKIE, jar, requests, response, replayed>>

vars == <<harness, cgi>>

Clients == 0 .. (NUM_CLIENTS - 1)

\* Every id a thread can have within the bound.
ThreadIds == 0 .. (MaxClients - 1)

-----------------------------------------------------------------------------
(* bytes.decode() and str.strip() *)

NoData == <<-1>>

IsCont(b) == b >= 128 /\ b <= 191

\* Number of continuation bytes a lead byte announces, -1 for a byte that
\* cannot start a UTF-8 sequence.
Utf8Follow(b) ==
    IF b < 128 THEN 0
    ELSE IF b >= 194 /\ b <= 223 THEN 1
    ELSE IF b >= 224 /\ b <= 239 THEN 2
    ELSE IF b >= 240 /\ b <= 244 THEN 3
    ELSE -1

\* The second byte's extra range restrictions (overlong forms, surrogates,
\* code points above U+10FFFF).
Utf8SecondOk(lead, b) ==
    /\ IsCont(b)
    /\ (lead = 224 => b >= 160)
    /\ (lead = 237 => b <= 159)
    /\ (lead = 240 => b >= 144)
    /\ (lead = 244 => b <= 143)

RECURSIVE Utf8Valid(_)
Utf8Valid(bs) ==
    IF bs = <<>> THEN TRUE
    ELSE LET n == Utf8Follow(Head(bs))
         IN  /\ n >= 0
             /\ Len(bs) >= n + 1
             /\ (n >= 1 => Utf8SecondOk(Head(bs), bs[2]))
             /\ \A k \in 3 .. (n + 1) : IsCont(bs[k])
             /\ Utf8Valid(SubSeq(bs, n + 2, Len(bs)))

\* The code points of a valid UTF-8 byte string.
RECURSIVE decode(_)
decode(bs) ==
    IF bs = <<>> THEN <<>>
    ELSE LET b == Head(bs)
             n == Utf8Follow(b)
             cp == IF n = 0 THEN b
                   ELSE IF n = 1 THEN (b % 32) * 64 + (bs[2] % 64)
                   ELSE IF n = 2 THEN (b % 16) * 4096 + (bs[2] % 64) * 64 + (bs[3] % 64)
                   ELSE (b % 8) * 262144 + (bs[2] % 64) * 4096
                        + (bs[3] % 64) * 64 + (bs[4] % 64)
         IN  <<cp>> \o decode(SubSeq(bs, n + 2, Len(bs)))

\* str.isspace() of one code point.
IsSpace(c) ==
    \/ c \in 9 .. 13
    \/ c \in 28 .. 32
    \/ c \in {133, 160, 5760, 8232, 8233, 8239, 8287, 12288}
    \/ c \in 8192 .. 8202

RECURSIVE lstrip(_)
lstrip(str) ==
    IF str # <<>> /\ IsSpace(Head(str)) THEN lstrip(Tail(str)) ELSE str

RECURSIVE rstrip(_)
rstrip(str) ==
    IF str # <<>> /\ IsSpace(str[Len(str)])
    THEN rstrip(SubSeq(str, 1, Len(str) - 1))
    ELSE str

strip(str) == rstrip(lstrip(str))

-----------------------------------------------------------------------------
(* Strings are sequences of one-character strings; str.encode() turns them  *)
(* into UTF-8 bytes.                                                        *)

\* The printable ASCII characters, from " " (32) to "~" (126); "grave" stands
\* for the grave accent (96), which cannot be written in a string here.
Ascii ==
    << " ", "!", "\"", "#", "$", "%", "&", "'", "(", ")", "*", "+", ",", "-", ".", "/",
       "0", "1", "2", "3", "4", "5", "6", "7", "8", "9", ":", ";", "<", "=", ">", "?",
       "@", "A", "B", "C", "D", "E", "F", "G", "H", "I", "J", "K", "L", "M", "N", "O",
       "P", "Q", "R", "S", "T", "U", "V", "W", "X", "Y", "Z", "[", "\\", "]", "^", "_",
       "grave", "a", "b", "c", "d", "e", "f", "g", "h", "i", "j", "k", "l", "m", "n", "o",
       "p", "q", "r", "s", "t", "u", "v", "w", "x", "y", "z", "{", "|", "}", "~" >>

\* ord(c) of a character.
ord(c) ==
    IF c = "\t" THEN 9
    ELSE IF c = "\n" THEN 10
    ELSE IF c = "\r" THEN 13
    ELSE 31 + (CHOOSE i \in DOMAIN Ascii : Ascii[i] = c)

\* The UTF-8 bytes of one code point.
Utf8Bytes(cp) ==
    IF cp < 128 THEN <<cp>>
    ELSE IF cp < 2048 THEN <<192 + (cp \div 64), 128 + (cp % 64)>>
    ELSE IF cp < 65536
    THEN <<224 + (cp \div 4096), 128 + ((cp \div 64) % 64), 128 + (cp % 64)>>
    ELSE <<240 + (cp \div 262144), 128 + ((cp \div 4096) % 64),
           128 + ((cp \div 64) % 64), 128 + (cp % 64)>>

\* str.encode(): the bytes of every character, in order.
encode(str) ==
    LET enc[lo \in 1 .. (Len(str) + 1), hi \in 0 .. Len(str)] ==
            IF lo > hi THEN <<>>
            ELSE IF lo = hi THEN Utf8Bytes(ord(str[lo]))
            ELSE enc[lo, (lo + hi) \div 2] \o enc[((lo + hi) \div 2) + 1, hi]
    IN  enc[1, Len(str)]

Digits == <<"0", "1", "2", "3", "4", "5", "6", "7", "8", "9">>

\* str(n) of an integer: its decimal digits, with a sign when negative.
RECURSIVE str_nat(_)
str_nat(n) ==
    IF n < 10 THEN <<Digits[n + 1]>>
    ELSE str_nat(n \div 10) \o <<Digits[(n % 10) + 1]>>

str(n) == IF n < 0 THEN <<"-">> \o str_nat(-n) ELSE str_nat(n)

\* "127.0.0.1", the HOST of script.py:5, and another host name.
Str127001 == <<"1", "2", "7", ".", "0", ".", "0", ".", "1">>

StrLocalhost == <<"l", "o", "c", "a", "l", "h", "o", "s", "t">>

CRLF == <<"\r", "\n">>

\* The request with the last f"\r\n" left out: no blank line ends the headers.
request_without_blank_line(id) ==
    <<"G", "E", "T", " ", "/", " ", "H", "T", "T", "P", "/", "1", ".", "1">> \o CRLF
    \o <<"H", "o", "s", "t", ":", " ">> \o HOST \o <<":">> \o str(PORT) \o CRLF
    \o <<"U", "s", "e", "r", "-", "A", "g", "e", "n", "t", ":", " ",
         "T", "e", "s", "t", "C", "l", "i", "e", "n", "t", "-">> \o str(id) \o CRLF

\* The f-string of script.py:15-20.
request(id) ==
    <<"G", "E", "T", " ", "/", " ", "H", "T", "T", "P", "/", "1", ".", "1">> \o CRLF
    \o <<"H", "o", "s", "t", ":", " ">> \o HOST \o <<":">> \o str(PORT) \o CRLF
    \o <<"U", "s", "e", "r", "-", "A", "g", "e", "n", "t", ":", " ",
         "T", "e", "s", "t", "C", "l", "i", "e", "n", "t", "-">> \o str(id) \o CRLF
    \o CRLF

-----------------------------------------------------------------------------
(* www/cgi-bin/bonus_session_test.py: one run of the script per request *)

\* Most requests one client makes.
MaxRequests == 3

\* hash(REMOTE_ADDR) % 10000 is some number of 0..9999, another in every
\* process (string hashing is salted); these are the ones tried.
HashMod10000 == {0, 4242, 9999}

StrSessionId == <<"s", "e", "s", "s", "i", "o", "n", "_", "i", "d">>

StrVisitCount == <<"v", "i", "s", "i", "t", "_", "c", "o", "u", "n", "t">>

StrUser == <<"u", "s", "e", "r", "_">>

\* The positions of character c in text.
Find(text, c) == {i \in DOMAIN text : text[i] = c}

Min(S) == CHOOSE i \in S : \A j \in S : i <= j

\* text.split(sep) for a one-character separator.
RECURSIVE split(_, _)
split(text, sep) ==
    IF Find(text, sep) = {} THEN <<text>>
    ELSE LET i == Min(Find(text, sep))
         IN  <<SubSeq(text, 1, i - 1)>> \o split(SubSeq(text, i + 1, Len(text)), sep)

\* text.split(sep, 1)
split_1(text, sep) ==
    IF Find(text, sep) = {} THEN <<text>>
    ELSE LET i == Min(Find(text, sep))
         IN  <<SubSeq(text, 1, i - 1), SubSeq(text, i + 1, Len(text))>>

\* text.strip() of a string of characters.
RECURSIVE lstrip_chars(_)
lstrip_chars(text) ==
    IF text # <<>> /\ IsSpace(ord(Head(text))) THEN lstrip_chars(Tail(text)) ELSE text

RECURSIVE rstrip_chars(_)
rstrip_chars(text) ==
    IF text # <<>> /\ IsSpace(ord(text[Len(text)]))
    THEN rstrip_chars(SubSeq(text, 1, Len(text) - 1))
    ELSE text

strip_chars(text) == rstrip_chars(lstrip_chars(text))

IsDigit(c) == \E d \in DOMAIN Digits : Digits[d] = c

DigitValue(c) == (CHOOSE d \in DOMAIN Digits : Digits[d] = c) - 1

\* The digits of an int() literal: digits, with single underscores allowed
\* between two digits.
IsDigitString(text) ==
    /\ text # <<>>
    /\ \A i \in DOMAIN text :
          \/ IsDigit(text[i])
          \/ /\ text[i] = "_"
             /\ i > 1 /\ i < Len(text)
             /\ IsDigit(text[i - 1]) /\ IsDigit(text[i + 1])

RECURSIVE DigitsValue(_, _)
DigitsValue(text, acc) ==
    IF text = <<>> THEN acc
    ELSE IF Head(text) = "_" THEN DigitsValue(Tail(text), acc)
    ELSE DigitsValue(Tail(text), 10 * acc + DigitValue(Head(text)))

\* int(text): white space around, an optional sign, digits; ok is FALSE where
\* int() raises ValueError.
int(text) ==
    LET body == strip_chars(text)
        signed == body # <<>> /\ Head(body) \in {"+", "-"}
        digits == IF signed THEN Tail(body) ELSE body
    IN  IF IsDigitString(digits)
        THEN [ok |-> TRUE,
              value |-> IF signed /\ Head(body) = "-"
                        THEN 0 - DigitsValue(digits, 0)
                        ELSE DigitsValue(digits, 0)]
        ELSE [ok |-> FALSE, value |-> 0]

\* Lines 8-9.  session_id = None is the empty string here: the script only
\* tests "not session_id", which is true of both.
NoSession == [session_id |-> <<>>, visit_count |-> 0]

\* Lines 13-22: one piece of the header.
read_cookie(cookie, acc) ==
    LET stripped == strip_chars(cookie)
        key_val == split_1(stripped, "=")
    IN  IF Find(stripped, "=") = {} THEN acc
        ELSE IF key_val[1] = StrSessionId
        THEN [acc EXCEPT !.session_id = key_val[2]]
        ELSE IF key_val[1] = StrVisitCount
        THEN [acc EXCEPT !.visit_count =
                  IF int(key_val[2]).ok THEN int(key_val[2]).value ELSE 0]
        ELSE acc

\* Lines 12-22: the loop over the pieces, in order.
RECURSIVE read_cookies(_, _)
read_cookies(pieces, acc) ==
    IF pieces = <<>> THEN acc
    ELSE read_cookies(Tail(pieces), read_cookie(Head(pieces), acc))

SetCookie(name, value) == [name |-> name, value |-> value]

\* visit_count + 2 in line 25.
visit_count_plus_2(n) == n + 2

\* Line 25: visit_count += 1
visit_count_plus_1(n) == n + 1

\* Line 28: if not session_id
wants_session_id(session_id) == session_id = <<>>

\* Lines 7-35 and 110-124: the Set-Cookie lines and the page of one run, for
\* the Cookie header of the request and the value hash_mod of
\* hash(REMOTE_ADDR) % 10000.
bonus_session_test(cookies, hash_mod) ==
    LET read == IF cookies # <<>> THEN read_cookies(split(cookies, ";"), NoSession)
                ELSE NoSession
        visit_count == visit_count_plus_1(read.visit_count)
        issue == wants_session_id(read.session_id)
        session_id == IF issue THEN StrUser \o str(hash_mod) ELSE read.session_id
        is_first_visit == visit_count = 1
    IN  [set_cookie |->
             (IF issue THEN <<SetCookie(StrSessionId, session_id)>> ELSE <<>>)
             \o <<SetCookie(StrVisitCount, str(visit_count))>>,
         session_id |-> session_id,
         visit_count |-> visit_count,
         page |-> IF is_first_visit THEN "first-visit" ELSE "returning"]

\* The client of the script: it keeps the cookies it is given and sends them
\* back as "name=value" pairs joined by "; ".
NoCookies == [session_id |-> <<>>, visit_count |-> <<>>]

RECURSIVE store(_, _)
store(cookies, set_cookie) ==
    IF set_cookie = <<>> THEN cookies
    ELSE store(IF Head(set_cookie).name = StrSessionId
               THEN [cookies EXCEPT !.session_id = Head(set_cookie).value]
               ELSE [cookies EXCEPT !.visit_count = Head(set_cookie).value],
               Tail(set_cookie))

CookieHeader(cookies) ==
    LET a == IF cookies.session_id = <<>> THEN <<>>
             ELSE StrSessionId \o <<"=">> \o cookies.session_id
        b == IF cookies.visit_count = <<>> THEN <<>>
             ELSE StrVisitCount \o <<"=">> \o cookies.visit_count
    IN  IF a = <<>> THEN b ELSE IF b = <<>> THEN a ELSE a \o <<";", " ">> \o b

\* Before the first request.
NoResponse == [jar |-> NoCookies, set_cookie |-> <<>>, page |-> ""]

\* Cookie headers a client may send that are not what the script gave it.
Headers ==
    { <<"v", "i", "s", "i", "t", "_", "c", "o", "u", "n", "t", "=", "5">>,
      <<"v", "i", "s", "i", "t", "_", "c", "o", "u", "n", "t", "=", "a", "b", "c">>,
      <<"v", "i", "s", "i", "t", "_", "c", "o", "u", "n", "t", "=", "-", "1">>,
      <<"v", "i", "s", "i", "t", "_", "c", "o", "u", "n", "t">>,
      <<"v", "i", "s", "i", "t", "_", "c", "o", "u", "n", "t", "=", " ", "1", "_", "0", " ">>,
      <<"s", "e", "s", "s", "i", "o", "n", "_", "i", "d", "=">>,
      <<"s", "e", "s", "s", "i", "o", "n", "_", "i", "d", "=", "u", "7", ";", " ", "v", "i", "s", "i", "t", "_", "c", "o", "u", "n", "t", "=", "2">>,
      <<"s", "e", "s", "s", "i", "o", "n", "_", "i", "d", "=", "u", "7", ";", " ", "s", "e", "s", "s", "i", "o", "n", "_", "i", "d", "=">>,
      <<"v", "i", "s", "i", "t", "_", "c", "o", "u", "n", "t", "=", "5", ";", " ", "v", "i", "s", "i", "t", "_", "c", "o", "u", "n", "t", "=", "x">>,
      <<"s", "i", "d", "=", "1", ";", "v", "i", "s", "i", "t", "_", "c", "o", "u", "n", "t", "=", "7", ";", "s", "e", "s", "s", "i", "o", "n", "_", "i", "d", "=", "a", "=", "b">> }

\* One request: the header is the jar's or any of Headers; the script runs;
\* the client stores what it is given.
cgi_request ==
    /\ requests < MaxRequests
    /\ \E header \in Headers \cup {CookieHeader(jar)}, hash_mod \in HashMod10000 :
          LET out == bonus_session_test(header, hash_mod)
          IN  /\ HTTP_COOKIE' = header
              /\ requests' = requests + 1
              /\ response' = [jar |-> jar,
                              set_cookie |-> out.set_cookie,
                              page |-> out.page]
              /\ jar' = store(jar, out.set_cookie)
              /\ replayed' = (replayed /\ header = CookieHeader(jar))
    /\ UNCHANGED harness

-----------------------------------------------------------------------------
(* What the peer may answer to one request: nothing (it closed), the line  *)
(* "é\r\n" (a two-byte UTF-8 character and trailing white space), and two  *)
(* bytes that are not UTF-8.                                                *)
Responses ==
    { <<>>, <<195, 169, 13, 10>>, <<195, 40>> }

\* s.recv(bufsize): at most bufsize bytes of what the peer sent.
recv(resp, bufsize) ==
    IF Len(resp) <= bufsize THEN resp ELSE SubSeq(resp, 1, bufsize)

NoCalls == [connect |-> 0, sendall |-> 0, recv |-> 0, close |-> 0]

Line(kind, id, text) == [kind |-> kind, id |-> id, text |-> text]

\* The state line 30 leaves, for given values of the three settings.
Constructed ==
    /\ mainpc = "banner"
    /\ t = 0
    /\ pc = [id \in Clients |-> "initial"]
    /\ s = [id \in Clients |-> "unbound"]
    /\ data = [id \in Clients |-> NoData]
    /\ e = [id \in Clients |-> ""]
    /\ raised = [id \in Clients |-> ""]
    /\ calls = [id \in Clients |-> NoCalls]
    /\ net = [id \in Clients |-> <<>>]
    /\ sent = [id \in Clients |-> <<>>]
    /\ steps = [id \in Clients |-> <<>>]
    /\ stdout = <<>>
    /\ HTTP_COOKIE = <<>>
    /\ jar = NoCookies
    /\ requests = 0
    /\ response = NoResponse
    /\ replayed = TRUE

\* The script as written (host and port of lines 5-6), for every number of
\* clients from 1 up, against a server that is there or not.
Init ==
    /\ HOST = Str127001
    /\ PORT = 8080
    /\ NUM_CLIENTS \in 1 .. MaxClients
    /\ endpoint \in {"listening", "unreachable"}
    /\ Constructed

\* The script with its three settings edited, to values that make sense or
\* not.  Nothing listens on a port outside 1..65535.
Hosts == {Str127001, StrLocalhost}

Ports == {0, 80, 8080, 65536}

ConfigInit ==
    /\ HOST \in Hosts
    /\ PORT \in Ports
    /\ NUM_CLIENTS \in 0 .. MaxClients
    /\ endpoint \in {"listening", "unreachable"}
    /\ (endpoint = "listening" => PORT \in 1 .. 65535)
    /\ Constructed

-----------------------------------------------------------------------------
(* The main thread, script.py:30-39 *)

\* print(f"Lanzando {NUM_CLIENTS} clientes concurrentes...")
print_banner ==
    /\ mainpc = "banner"
    /\ stdout' = Append(stdout, Line("banner", NUM_CLIENTS, <<>>))
    /\ mainpc' = "start"
    /\ t' = 0
    /\ UNCHANGED <<cgi, HOST, PORT, NUM_CLIENTS, endpoint, pc, s, data, e, raised, calls, net>>
    /\ UNCHANGED <<sent, steps>>

\* for t in threads[:-1]: t.start()  -- the last thread is never started.
start_all_but_last ==
    /\ mainpc = "start"
    /\ IF t < NUM_CLIENTS - 1
       THEN /\ pc' = [pc EXCEPT ![t] = "socket"]
            /\ t' = t + 1
            /\ mainpc' = mainpc
       ELSE /\ mainpc' = "join"
            /\ t' = 0
            /\ pc' = pc
    /\ UNCHANGED <<cgi, HOST, PORT, NUM_CLIENTS, endpoint, s, data, e, raised, calls, net, stdout>>
    /\ UNCHANGED <<sent, steps>>

\* start() and join() in one loop: each thread is waited for right after it
\* is started.
start_then_join ==
    /\ mainpc = "start"
    /\ IF t < NUM_CLIENTS
       THEN /\ pc' = [pc EXCEPT ![t] = "socket"]
            /\ t' = t
            /\ mainpc' = "join"
       ELSE /\ mainpc' = "join"
            /\ t' = 0
            /\ pc' = pc
    /\ UNCHANGED <<cgi, HOST, PORT, NUM_CLIENTS, endpoint, s, data, e, raised, calls, net, stdout>>
    /\ UNCHANGED <<sent, steps>>

\* for t in threads: t.start()
start ==
    /\ mainpc = "start"
    /\ IF t < NUM_CLIENTS
       THEN /\ pc' = [pc EXCEPT ![t] = "socket"]
            /\ t' = t + 1
            /\ mainpc' = mainpc
       ELSE /\ mainpc' = "join"
            /\ t' = 0
            /\ pc' = pc
    /\ UNCHANGED <<cgi, HOST, PORT, NUM_CLIENTS, endpoint, s, data, e, raised, calls, net, stdout>>
    /\ UNCHANGED <<sent, steps>>

\* join() returning at once (a join with a zero timeout).
join_timeout_0 ==
    /\ mainpc = "join"
    /\ IF t < NUM_CLIENTS
       THEN /\ t' = t + 1
            /\ mainpc' = mainpc
       ELSE /\ mainpc' = "marker"
            /\ t' = t
    /\ UNCHANGED <<cgi, HOST, PORT, NUM_CLIENTS, endpoint, pc, s, data, e, raised, calls, net, stdout>>
    /\ UNCHANGED <<sent, steps>>

\* for t in threads: t.join()  -- join returns once the thread has terminated
join ==
    /\ mainpc = "join"
    /\ IF t < NUM_CLIENTS
       THEN /\ pc[t] = "terminated"
            /\ t' = t + 1
            /\ mainpc' = mainpc
       ELSE /\ mainpc' = "marker"
            /\ t' = t
    /\ UNCHANGED <<cgi, HOST, PORT, NUM_CLIENTS, endpoint, pc, s, data, e, raised, calls, net, stdout>>
    /\ UNCHANGED <<sent, steps>>

\* print("Prueba terminada.")
print_marker ==
    /\ mainpc = "marker"
    /\ stdout' = Append(stdout, Line("marker", NUM_CLIENTS, <<>>))
    /\ mainpc' = "done"
    /\ UNCHANGED <<cgi, HOST, PORT, NUM_CLIENTS, endpoint, t, pc, s, data, e, raised, calls, net>>
    /\ UNCHANGED <<sent, steps>>

main == print_banner \/ start \/ join \/ print_marker

-----------------------------------------------------------------------------
(* client(id), script.py:9-28 *)

\* One result of a socket call, as the thread running client(id) sees it.
Returned(call, bytes) == [call |-> call, ok |-> TRUE, bytes |-> bytes]
Failed(call) == [call |-> call, ok |-> FALSE, bytes |-> <<>>]

\* The caught exception kept in one module-level variable shared by all
\* threads instead of a local of client(id).
Raise_global(id, exc) ==
    /\ e' = [j \in Clients |-> exc]
    /\ pc' = [pc EXCEPT ![id] = "except"]

\* An exception raised inside the try block: control goes to the except clause.
Raise(id, exc) ==
    /\ e' = [e EXCEPT ![id] = exc]
    /\ pc' = [pc EXCEPT ![id] = "except"]

\* s = socket.socket(AF_INET, SOCK_STREAM)
socket_socket(id) ==
    /\ id \in Clients
    /\ pc[id] = "socket"
    /\ \/ /\ s' = [s EXCEPT ![id] = "open"]
          /\ pc' = [pc EXCEPT ![id] = "connect"]
          /\ net' = [net EXCEPT ![id] = Append(@, Returned("socket", <<>>))]
          /\ e' = e
       \/ /\ Raise(id, "socket")
          /\ net' = [net EXCEPT ![id] = Append(@, Failed("socket"))]
          /\ s' = s
    /\ UNCHANGED <<cgi, HOST, PORT, NUM_CLIENTS, endpoint, mainpc, t, data, raised, calls, stdout>>
    /\ steps' = [steps EXCEPT ![id] = Append(@, "socket")]
    /\ UNCHANGED sent

\* s.connect_ex((HOST, PORT)): the error comes back as a return value that
\* is not looked at, and the client goes on to send.
connect_ex(id) ==
    /\ id \in Clients
    /\ pc[id] = "connect"
    /\ calls' = [calls EXCEPT ![id].connect = @ + 1]
    /\ pc' = [pc EXCEPT ![id] = "sendall"]
    /\ \/ /\ endpoint = "listening"
          /\ s' = [s EXCEPT ![id] = "connected"]
          /\ net' = [net EXCEPT ![id] = Append(@, Returned("connect", <<>>))]
       \/ /\ net' = [net EXCEPT ![id] = Append(@, Failed("connect"))]
          /\ s' = s
    /\ UNCHANGED <<cgi, HOST, PORT, NUM_CLIENTS, endpoint, mainpc, t, data, e, raised, stdout>>
    /\ steps' = [steps EXCEPT ![id] = Append(@, "connect")]
    /\ UNCHANGED sent

\* connect under a lock that is held for the whole exchange: a client
\* connects only while no other client holds a connection.
connect_one_at_a_time(id) ==
    /\ id \in Clients
    /\ pc[id] = "connect"
    /\ \A j \in Clients \ {id} : s[j] # "connected"
    /\ calls' = [calls EXCEPT ![id].connect = @ + 1]
    /\ \/ /\ endpoint = "listening"
          /\ s' = [s EXCEPT ![id] = "connected"]
          /\ pc' = [pc EXCEPT ![id] = "sendall"]
          /\ net' = [net EXCEPT ![id] = Append(@, Returned("connect", <<>>))]
          /\ e' = e
       \/ /\ Raise(id, "connect")
          /\ net' = [net EXCEPT ![id] = Append(@, Failed("connect"))]
          /\ s' = s
    /\ steps' = [steps EXCEPT ![id] = Append(@, "connect")]
    /\ UNCHANGED <<cgi, HOST, PORT, NUM_CLIENTS, endpoint, mainpc, t, data, raised, stdout, sent>>

\* connect in a retry loop: a failed attempt is tried again.
connect_retry(id) ==
    /\ id \in Clients
    /\ pc[id] = "connect"
    /\ calls' = [calls EXCEPT ![id].connect = @ + 1]
    /\ \/ /\ endpoint = "listening"
          /\ s' = [s EXCEPT ![id] = "connected"]
          /\ pc' = [pc EXCEPT ![id] = "sendall"]
          /\ net' = [net EXCEPT ![id] = Append(@, Returned("connect", <<>>))]
       \/ /\ net' = [net EXCEPT ![id] = Append(@, Failed("connect"))]
          /\ UNCHANGED <<s, pc>>
    /\ steps' = [steps EXCEPT ![id] = Append(@, "connect")]
    /\ UNCHANGED <<cgi, HOST, PORT, NUM_CLIENTS, endpoint, mainpc, t, data, e, raised, stdout, sent>>

\* s.connect((HOST, PORT))
connect(id) ==
    /\ id \in Clients
    /\ pc[id] = "connect"
    /\ calls' = [calls EXCEPT ![id].connect = @ + 1]
    /\ \/ /\ endpoint = "listening"
          /\ s' = [s EXCEPT ![id] = "connected"]
          /\ pc' = [pc EXCEPT ![id] = "sendall"]
          /\ net' = [net EXCEPT ![id] = Append(@, Returned("connect", <<>>))]
          /\ e' = e
       \/ /\ Raise(id, "connect")
          /\ net' = [net EXCEPT ![id] = Append(@, Failed("connect"))]
          /\ s' = s
    /\ UNCHANGED <<cgi, HOST, PORT, NUM_CLIENTS, endpoint, mainpc, t, data, raised, stdout>>
    /\ steps' = [steps EXCEPT ![id] = Append(@, "connect")]
    /\ UNCHANGED sent

\* sendall followed at once by recv, the sleep left out.
sendall_then_recv(id) ==
    /\ id \in Clients
    /\ pc[id] = "sendall"
    /\ calls' = [calls EXCEPT ![id].sendall = @ + 1]
    /\ \/ /\ pc' = [pc EXCEPT ![id] = "recv"]
          /\ net' = [net EXCEPT ![id] = Append(@, Returned("sendall", <<>>))]
          /\ e' = e
       \/ /\ Raise(id, "sendall")
          /\ net' = [net EXCEPT ![id] = Append(@, Failed("sendall"))]
    /\ steps' = [steps EXCEPT ![id] = Append(@, "sendall")]
    /\ sent' = [sent EXCEPT ![id] = encode(request(id))]
    /\ UNCHANGED <<cgi, HOST, PORT, NUM_CLIENTS, endpoint, mainpc, t, s, data, raised, stdout>>

\* request = ...; s.sendall(request.encode())
sendall(id) ==
    /\ id \in Clients
    /\ pc[id] = "sendall"
    /\ calls' = [calls EXCEPT ![id].sendall = @ + 1]
    /\ \/ /\ pc' = [pc EXCEPT ![id] = "sleep"]
          /\ net' = [net EXCEPT ![id] = Append(@, Returned("sendall", <<>>))]
          /\ e' = e
       \/ /\ Raise(id, "sendall")
          /\ net' = [net EXCEPT ![id] = Append(@, Failed("sendall"))]
    /\ UNCHANGED <<cgi, HOST, PORT, NUM_CLIENTS, endpoint, mainpc, t, s, data, raised, stdout>>
    /\ steps' = [steps EXCEPT ![id] = Append(@, "sendall")]
    /\ sent' = [sent EXCEPT ![id] = encode(request(id))]

\* time.sleep(0.1)
sleep(id) ==
    /\ id \in Clients
    /\ pc[id] = "sleep"
    /\ pc' = [pc EXCEPT ![id] = "recv"]
    /\ UNCHANGED <<cgi, HOST, PORT, NUM_CLIENTS, endpoint, mainpc, t, s, data, e, raised, calls, net, stdout>>
    /\ steps' = [steps EXCEPT ![id] = Append(@, "sleep")]
    /\ UNCHANGED sent

\* data = s.recv(1024)
s_recv(id) ==
    /\ id \in Clients
    /\ pc[id] = "recv"
    /\ calls' = [calls EXCEPT ![id].recv = @ + 1]
    /\ \/ \E resp \in Responses :
             /\ data' = [data EXCEPT ![id] = recv(resp, RecvBufSize)]
             /\ pc' = [pc EXCEPT ![id] = "print"]
             /\ net' = [net EXCEPT ![id] =
                            Append(@, Returned("recv", recv(resp, RecvBufSize)))]
             /\ e' = e
       \/ /\ Raise(id, "recv")
          /\ net' = [net EXCEPT ![id] = Append(@, Failed("recv"))]
          /\ data' = data
    /\ UNCHANGED <<cgi, HOST, PORT, NUM_CLIENTS, endpoint, mainpc, t, s, raised, stdout>>
    /\ steps' = [steps EXCEPT ![id] = Append(@, "recv")]
    /\ UNCHANGED sent

\* An empty read treated as an error (if not data: raise ConnectionError).
print_Recibido_or_raise_on_empty(id) ==
    /\ id \in Clients
    /\ pc[id] = "print"
    /\ IF Utf8Valid(data[id]) /\ data[id] # <<>>
       THEN /\ stdout' = Append(stdout, Line("Recibido", id, strip(decode(data[id]))))
            /\ pc' = [pc EXCEPT ![id] = "finally"]
            /\ e' = e
       ELSE /\ Raise(id, IF data[id] = <<>> THEN "closed" ELSE "decode")
            /\ stdout' = stdout
    /\ steps' = [steps EXCEPT ![id] =
                     Append(@, IF Utf8Valid(data[id]) /\ data[id] # <<>>
                               THEN "print" ELSE "decode")]
    /\ UNCHANGED <<cgi, HOST, PORT, NUM_CLIENTS, endpoint, mainpc, t, s, data, raised, calls, net, sent>>

\* print(f"[Cliente {id}] Recibido: {data.decode().strip()}")
print_Recibido(id) ==
    /\ id \in Clients
    /\ pc[id] = "print"
    /\ IF Utf8Valid(data[id])
       THEN /\ stdout' = Append(stdout, Line("Recibido", id, strip(decode(data[id]))))
            /\ pc' = [pc EXCEPT ![id] = "finally"]
            /\ e' = e
       ELSE /\ Raise(id, "decode")
            /\ stdout' = stdout
    /\ UNCHANGED <<cgi, HOST, PORT, NUM_CLIENTS, endpoint, mainpc, t, s, data, raised, calls, net>>
    /\ steps' = [steps EXCEPT ![id] =
                     Append(@, IF Utf8Valid(data[id]) THEN "print" ELSE "decode")]
    /\ UNCHANGED sent

\* An except clause that swallows the exception without reporting it.
except_pass(id) ==
    /\ id \in Clients
    /\ pc[id] = "except"
    /\ pc' = [pc EXCEPT ![id] = "finally"]
    /\ UNCHANGED <<cgi, HOST, PORT, NUM_CLIENTS, endpoint, mainpc, t, s, data, e, raised, calls, net, stdout>>
    /\ UNCHANGED <<sent, steps>>

\* except Exception as e: print(f"[Cliente {id}] Error: {e}")
except_Exception(id) ==
    /\ id \in Clients
    /\ pc[id] = "except"
    /\ stdout' = Append(stdout, Line("Error", id, e[id]))
    /\ pc' = [pc EXCEPT ![id] = "finally"]
    /\ UNCHANGED <<cgi, HOST, PORT, NUM_CLIENTS, endpoint, mainpc, t, s, data, e, raised, calls, net>>
    /\ steps' = [steps EXCEPT ![id] = Append(@, "print")]
    /\ UNCHANGED sent

\* s.close() as the last statement of the try block instead of a finally
\* block: it is skipped when an exception was caught.
close_in_try(id) ==
    /\ id \in Clients
    /\ pc[id] = "finally"
    /\ pc' = [pc EXCEPT ![id] = "terminated"]
    /\ IF e[id] # ""
       THEN UNCHANGED <<s, calls, net, raised>>
       ELSE /\ s' = [s EXCEPT ![id] = "closed"]
            /\ calls' = [calls EXCEPT ![id].close = @ + 1]
            /\ \/ /\ raised' = raised
                  /\ net' = [net EXCEPT ![id] = Append(@, Returned("close", <<>>))]
               \/ /\ raised' = [raised EXCEPT ![id] = "OSError"]
                  /\ net' = [net EXCEPT ![id] = Append(@, Failed("close"))]
    /\ UNCHANGED <<cgi, HOST, PORT, NUM_CLIENTS, endpoint, mainpc, t, data, e, stdout>>
    /\ steps' = [steps EXCEPT ![id] = IF e[id] # "" THEN @ ELSE Append(@, "close")]
    /\ UNCHANGED sent

\* finally: s.close()
\* With s never assigned, the name lookup raises UnboundLocalError.  Otherwise
\* the descriptor is released whether or not close() reports an error.  Either
\* exception leaves client(id) and ends the thread.
finally_close(id) ==
    /\ id \in Clients
    /\ pc[id] = "finally"
    /\ pc' = [pc EXCEPT ![id] = "terminated"]
    /\ IF s[id] = "unbound"
       THEN /\ raised' = [raised EXCEPT ![id] = "UnboundLocalError"]
            /\ UNCHANGED <<s, calls, net>>
       ELSE /\ s' = [s EXCEPT ![id] = "closed"]
            /\ calls' = [calls EXCEPT ![id].close = @ + 1]
            /\ \/ /\ raised' = raised
                  /\ net' = [net EXCEPT ![id] = Append(@, Returned("close", <<>>))]
               \/ /\ raised' = [raised EXCEPT ![id] = "OSError"]
                  /\ net' = [net EXCEPT ![id] = Append(@, Failed("close"))]
    /\ UNCHANGED <<cgi, HOST, PORT, NUM_CLIENTS, endpoint, mainpc, t, data, e, stdout>>
    /\ steps' = [steps EXCEPT ![id] = Append(@, "close")]
    /\ UNCHANGED sent

\* Every step of client(id) but the return of recv.
before_or_after_recv(id) ==
    \/ socket_socket(id)
    \/ connect(id)
    \/ sendall(id)
    \/ sleep(id)
    \/ print_Recibido(id)
    \/ except_Exception(id)
    \/ finally_close(id)

client(id) == before_or_after_recv(id) \/ s_recv(id)

-----------------------------------------------------------------------------
Next == main \/ \E id \in ThreadIds : client(id)

Spec == Init /\ [][Next]_vars

\* The same program started from any of the edited settings.
ConfigSpec == ConfigInit /\ [][Next]_vars

\* The script serving one client; script.py does not run here.
SessionInit ==
    /\ HOST = Str127001
    /\ PORT = 8080
    /\ NUM_CLIENTS = 0
    /\ endpoint = "listening"
    /\ Constructed

SessionSpec == SessionInit /\ [][cgi_request]_vars

\* Fair scheduling of the main thread and of every client thread: a thread
\* that can take a step takes one.  connect and sendall return on their own
\* (the kernel gives up on a connection attempt; the request fits the send
\* buffer).  recv has no timeout: it returns when the peer sends, closes or
\* resets, and not before, so nothing here obliges it to return.
SchedSpec ==
    /\ Spec
    /\ WF_vars(main)
    /\ \A id \in ThreadIds : WF_vars(before_or_after_recv(id))

\* The same, with a peer that eventually answers, closes or resets every
\* connection, so that every recv returns.
FairSpec ==
    /\ Spec
    /\ WF_vars(main)
    /\ \A id \in ThreadIds : WF_vars(client(id))

-----------------------------------------------------------------------------
(* What the run printed *)

IsOutcome(l) == l.kind \in {"Recibido", "Error"}

\* The positions in stdout of the outcome lines of client id.
OutcomesOf(id) == {k \in DOMAIN stdout : IsOutcome(stdout[k]) /\ stdout[k].id = id}

Outcomes == {k \in DOMAIN stdout : IsOutcome(stdout[k])}

MarkerPrinted == \E k \in DOMAIN stdout : stdout[k].kind = "marker"

\* C1: a completed run has printed exactly NUM_CLIENTS outcome lines, one
\* 'Recibido' or 'Error' line for each client id in 0..NUM_CLIENTS-1, whatever
\* the socket calls returned; no client is reported twice at any time, and a
\* terminated client has been reported.
ExactlyOneOutcomePerClient ==
    /\ \A k \in Outcomes : stdout[k].id \in Clients
    /\ \A id \in Clients :
          /\ Cardinality(OutcomesOf(id)) <= 1
          /\ pc[id] = "terminated" => Cardinality(OutcomesOf(id)) = 1
    /\ MarkerPrinted =>
          /\ Cardinality(Outcomes) = NUM_CLIENTS
          /\ \A id \in Clients : Cardinality(OutcomesOf(id)) = 1

\* A completed run of MaxClients clients with one client that could not
\* create its socket and one that received an answer.
ExactlyOneOutcomeWitness ==
    /\ mainpc = "done"
    /\ NUM_CLIENTS = MaxClients
    /\ \E id \in Clients : e[id] = "socket"
    /\ \E k \in Outcomes : stdout[k].kind = "Recibido"

\* C2: no exception leaves client(id): a terminated worker has returned
\* normally, and a worker in which a call failed has reported the failure;
\* in particular the finally block does not raise when socket creation failed.
NoExceptionLeavesWorker ==
    \A id \in Clients :
        pc[id] = "terminated" =>
            /\ raised[id] = ""
            /\ (e[id] # "" => \E k \in OutcomesOf(id) : stdout[k].kind = "Error")

\* C3: a terminated worker has closed the socket it opened, on the success
\* path and after a failure at connect, sendall, recv or decode; once the
\* end-of-run marker is printed no socket is open.
NoSocketLeaked ==
    /\ \A id \in Clients :
          pc[id] = "terminated" => s[id] \in {"unbound", "closed"}
    /\ MarkerPrinted => \A id \in Clients : s[id] \notin {"open", "connected"}

\* A worker that failed in recv has terminated while a sibling that failed
\* to connect has terminated too.
NoSocketLeakedWitness ==
    /\ \E id \in Clients : pc[id] = "terminated" /\ e[id] = "recv" /\ s[id] = "closed"
    /\ \E id \in Clients : pc[id] = "terminated" /\ e[id] = "connect" /\ s[id] = "closed"

\* C4: the end-of-run marker is printed only after every worker has
\* terminated and reported its outcome.
MarkerAfterAllWorkers ==
    (mainpc \in {"marker", "done"} \/ MarkerPrinted) =>
        \A id \in Clients :
            /\ pc[id] = "terminated"
            /\ OutcomesOf(id) # {}

\* The marker is printed after a run in which one worker ended with an
\* exception and another ended normally.
MarkerAfterAllWorkersWitness ==
    /\ MarkerPrinted
    /\ \E id \in Clients : raised[id] # ""
    /\ \E id \in Clients : raised[id] = "" /\ e[id] = ""

\* C5: exactly the threads 0..t-1 have been started while the main thread
\* is in its start loop, none before it, and all NUM_CLIENTS of them once it
\* waits: the main thread never joins while a thread is still unstarted.
AllStartedBeforeAnyJoin ==
    /\ DOMAIN pc = 0 .. (NUM_CLIENTS - 1)
    /\ mainpc = "banner" => \A id \in Clients : pc[id] = "initial"
    /\ mainpc = "start" => \A id \in Clients : (pc[id] # "initial") <=> (id < t)
    /\ mainpc \in {"join", "marker", "done"} => \A id \in Clients : pc[id] # "initial"

\* The main thread is about to join its first thread while one worker has
\* already terminated and another is still connecting.
AllStartedBeforeAnyJoinWitness ==
    /\ mainpc = "join"
    /\ t = 0
    /\ NUM_CLIENTS = MaxClients
    /\ \E id \in Clients : pc[id] = "terminated"
    /\ \E id \in Clients : pc[id] = "connect"

\* The outcome line client id prints, computed from nothing but the results
\* its own socket calls returned: the first failed call of the try block
\* names the error; with no failed call, the bytes recv returned are decoded.
FailedCalls(evs) == {k \in DOMAIN evs : ~evs[k].ok /\ evs[k].call # "close"}

RecvCalls(evs) == {k \in DOMAIN evs : evs[k].ok /\ evs[k].call = "recv"}

OutcomeOfEvents(id, evs) ==
    IF FailedCalls(evs) # {}
    THEN Line("Error", id, evs[CHOOSE k \in FailedCalls(evs) : TRUE].call)
    ELSE LET bytes == evs[CHOOSE k \in RecvCalls(evs) : TRUE].bytes
         IN  IF Utf8Valid(bytes)
             THEN Line("Recibido", id, strip(decode(bytes)))
             ELSE Line("Error", id, "decode")

\* A step that changes anything client id owns is a step of client id itself
\* (or the main thread starting it).
OnlyOwnSteps ==
    \A id \in Clients :
        (<<pc[id], s[id], data[id], e[id], raised[id], net[id]>>'
            # <<pc[id], s[id], data[id], e[id], raised[id], net[id]>>)
        => (client(id) \/ start)

\* C6: the outcome line of client i is a function of the results of client
\* i's own socket calls alone (so two runs that agree on them and differ in
\* what happens to client j print the same outcome for i); a started,
\* unterminated client always has a step of its own to take, whatever its
\* siblings did; and no step of another thread changes what client i owns.
SiblingIndependence ==
    /\ [](\A id \in Clients :
            /\ \A k \in OutcomesOf(id) : stdout[k] = OutcomeOfEvents(id, net[id])
            /\ pc[id] \notin {"initial", "terminated"} => ENABLED client(id))
    /\ [][OnlyOwnSteps]_vars

\* Client j failed and printed its error first; client i, still running at
\* that time, printed what it received afterwards.
SiblingIndependenceWitness ==
    \E k, l \in Outcomes :
        /\ k < l
        /\ stdout[k].kind = "Error"
        /\ stdout[l].kind = "Recibido"
        /\ stdout[l].text # <<>>
        /\ pc[stdout[k].id] = "terminated"
        /\ pc[stdout[l].id] = "terminated"

\* C7: with fair scheduling and every blocking call returning, the run
\* eventually prints the end-of-run marker, having printed NUM_CLIENTS
\* outcome lines.
RunCompletes ==
    <>(MarkerPrinted /\ Cardinality(Outcomes) = NUM_CLIENTS)

\* A completed run in which one close() failed and one answer could not be
\* decoded.
RunCompletesWitness ==
    /\ mainpc = "done"
    /\ NUM_CLIENTS = MaxClients
    /\ \E id \in Clients : raised[id] = "OSError"
    /\ \E id \in Clients : e[id] = "decode"

AllFailed ==
    \A id \in Clients : \E k \in OutcomesOf(id) : stdout[k].kind = "Error"

\* C8: with the endpoint unreachable no client ever gets a connection, sends
\* or receives, every outcome line is an 'Error' line, and the run reaches
\* the end-of-run marker with every client reported as failed.
UnreachableEndpointAllFail ==
    /\ [](endpoint = "unreachable" =>
            /\ \A id \in Clients :
                  /\ s[id] # "connected"
                  /\ calls[id].sendall = 0
                  /\ calls[id].recv = 0
            /\ \A k \in Outcomes : stdout[k].kind = "Error")
    /\ (endpoint = "unreachable") ~> (MarkerPrinted /\ AllFailed)

\* A completed run against an unreachable endpoint in which every client
\* tried to connect.
UnreachableEndpointWitness ==
    /\ endpoint = "unreachable"
    /\ mainpc = "done"
    /\ NUM_CLIENTS = MaxClients
    /\ \A id \in Clients : calls[id].connect = 1 /\ e[id] = "connect"

\* C9: a worker whose peer never answers gives up with a timeout failure and
\* terminates, so that under fair scheduling alone every worker waiting in
\* recv terminates and the end-of-run marker is eventually printed.
SilentPeerTimesOut ==
    /\ \A id \in ThreadIds :
          (id \in Clients /\ pc[id] = "recv")
              ~> (id \in Clients /\ pc[id] = "terminated")
    /\ <>(mainpc = "done")

\* C10: the outcome lines appear in increasing client id order, whatever
\* the order in which the workers complete.
OutcomeLinesSortedByClientId ==
    \A k, l \in Outcomes : k < l => stdout[k].id < stdout[l].id

-----------------------------------------------------------------------------
(* Configuration, and what one worker does *)

ConfigValid == NUM_CLIENTS >= 1 /\ PORT \in 1 .. 65535

ConfigErrorReported == \E k \in DOMAIN stdout : stdout[k].kind = "ConfigError"

\* C11: with NUM_CLIENTS < 1 or PORT outside 1..65535 no worker is ever
\* launched, no socket is created or connected, and the run ends having
\* reported a configuration error.
InvalidConfigRejectedFirst ==
    ~ConfigValid =>
        /\ \A id \in Clients :
              /\ pc[id] = "initial"
              /\ s[id] = "unbound"
              /\ calls[id].connect = 0
        /\ mainpc = "done" => ConfigErrorReported

\* The results of the successful recv calls of client id.
Received(id) ==
    {net[id][k].bytes : k \in {j \in DOMAIN net[id] :
                                  net[id][j].call = "recv" /\ net[id][j].ok}}

Reported(id) == {stdout[k] : k \in OutcomesOf(id)}

\* C12: a client whose recv returned the empty byte string never enters the
\* except clause and reports 'Recibido' with empty content.
ZeroByteReadIsSuccess ==
    \A id \in Clients :
        <<>> \in Received(id) =>
            /\ pc[id] # "except"
            /\ e[id] = ""
            /\ Reported(id) \subseteq {Line("Recibido", id, <<>>)}
            /\ pc[id] \in {"finally", "terminated"} => Reported(id) # {}

\* A client has terminated after an empty read while its sibling received
\* text.
ZeroByteReadWitness ==
    /\ \E id \in Clients : pc[id] = "terminated" /\ <<>> \in Received(id)
    /\ \E id \in Clients : \E l \in Reported(id) : l.kind = "Recibido" /\ l.text # <<>>

\* C13: whenever recv returned, whatever bytes it returned, the client reports
\* 'Recibido' and never an error.
ReceivedBytesAreOpaque ==
    \A id \in Clients :
        Received(id) # {} =>
            /\ pc[id] # "except"
            /\ \A l \in Reported(id) : l.kind = "Recibido"

\* How many times statement st occurs in the steps of client id.
Times(id, st) == Cardinality({k \in DOMAIN steps[id] : steps[id][k] = st})

ConnectFailed(id) ==
    \E k \in DOMAIN net[id] : net[id][k].call = "connect" /\ ~net[id][k].ok

\* C14: a worker issues at most one connect, one sendall, one recv and one
\* close; after a failed connect it issues no second connect, no sendall, no
\* sleep and no recv.
OneAttemptNoRetry ==
    \A id \in Clients :
        /\ calls[id].connect <= 1 /\ Times(id, "connect") <= 1
        /\ calls[id].sendall <= 1 /\ Times(id, "sendall") <= 1
        /\ calls[id].recv <= 1 /\ Times(id, "recv") <= 1
        /\ calls[id].close <= 1 /\ Times(id, "close") <= 1
        /\ ConnectFailed(id) =>
              /\ calls[id].connect = 1
              /\ calls[id].sendall = 0 /\ calls[id].recv = 0
              /\ Times(id, "sendall") + Times(id, "sleep") + Times(id, "recv") = 0

\* One worker has terminated after a failed connect and a closed socket,
\* another after one call of each kind.
OneAttemptNoRetryWitness ==
    /\ \E id \in Clients :
          pc[id] = "terminated" /\ ConnectFailed(id) /\ calls[id].close = 1
    /\ \E id \in Clients :
          /\ pc[id] = "terminated"
          /\ calls[id] = [connect |-> 1, sendall |-> 1, recv |-> 1, close |-> 1]

-----------------------------------------------------------------------------
(* The request on the wire *)

\* The positions at which the byte string sub occurs in bs.
Occurs(sub, bs) ==
    {i \in 1 .. (Len(bs) - Len(sub) + 1) : SubSeq(bs, i, i + Len(sub) - 1) = sub}

StartsWith(bs, pre) == Len(bs) >= Len(pre) /\ SubSeq(bs, 1, Len(pre)) = pre

Bytes(chars) == encode(chars)

\* The value of the header named name in bs: the bytes between "\r\n<name>: "
\* and the next "\r\n".  Used where the header occurs exactly once.
HeaderValue(bs, name) ==
    LET key == Bytes(CRLF \o name \o <<":", " ">>)
        at == CHOOSE i \in Occurs(key, bs) : TRUE
        from == at + Len(key)
        to == CHOOSE j \in Occurs(Bytes(CRLF), bs) :
                  j >= from /\ \A k \in Occurs(Bytes(CRLF), bs) : k >= from => j <= k
    IN  SubSeq(bs, from, to - 1)

StrHost == <<"H", "o", "s", "t">>

StrUserAgent == <<"U", "s", "e", "r", "-", "A", "g", "e", "n", "t">>

WellFormed(bs, id) ==
    /\ StartsWith(bs, Bytes(<<"G", "E", "T", " ", "/", " ", "H", "T", "T", "P", "/",
                              "1", ".", "1">> \o CRLF))
    /\ Occurs(Bytes(CRLF \o CRLF), bs) = {Len(bs) - 3}
    /\ Cardinality(Occurs(Bytes(CRLF \o StrHost \o <<":", " ">>), bs)) = 1
    /\ HeaderValue(bs, StrHost) = Bytes(HOST \o <<":">> \o str(PORT))
    /\ Cardinality(Occurs(Bytes(CRLF \o StrUserAgent \o <<":", " ">>), bs)) = 1
    /\ Occurs(Bytes(str(id)), HeaderValue(bs, StrUserAgent)) # {}

\* C15: the bytes a client hands to sendall start with the request line
\* "GET / HTTP/1.1", contain "\r\n\r\n" exactly once, as their last four
\* bytes, carry one Host header whose value is HOST:PORT and one User-Agent
\* header whose value contains the client id in decimal.
RequestWellFormed ==
    \A id \in Clients : calls[id].sendall > 0 => WellFormed(sent[id], id)

\* Two clients have sent their requests to a host and port other than the
\* ones the script is written with.
RequestWellFormedWitness ==
    /\ HOST = StrLocalhost
    /\ PORT = 80
    /\ NUM_CLIENTS = MaxClients
    /\ \A id \in Clients : calls[id].sendall = 1 /\ Len(sent[id]) > 0

-----------------------------------------------------------------------------
(* The order of one worker's statements *)

\* The place of each statement in client(): lines 11, 12, 21, 22, 23, 24
\* (decode, then print), 26 (print) and 28.
Rank(st) ==
    CASE st = "socket" -> 1
      [] st = "connect" -> 2
      [] st = "sendall" -> 3
      [] st = "sleep" -> 4
      [] st = "recv" -> 5
      [] st = "decode" -> 6
      [] st = "print" -> 7
      [] st = "close" -> 8

Done(id, st) == \E k \in DOMAIN steps[id] : steps[id][k] = st

SendallReturned(id) ==
    \E k \in DOMAIN net[id] : net[id][k].call = "sendall" /\ net[id][k].ok

SuspendedWorkerBlocksNoSibling ==
    \A i \in Clients :
        pc[i] \in {"connect", "sleep", "recv"} =>
            \A j \in Clients \ {i} :
                pc[j] \notin {"initial", "terminated"} => ENABLED client(j)

\* All MaxClients workers hold an open connection at the same time, some
\* sleeping and some waiting in recv.
AllConnectionsOpenAtOnce ==
    /\ NUM_CLIENTS = MaxClients
    /\ \A id \in Clients : s[id] = "connected"
    /\ \E id \in Clients : pc[id] = "sleep"
    /\ \E id \in Clients : pc[id] = "recv"

-----------------------------------------------------------------------------
(* The session cookies of bonus_session_test.py *)

\* The value the latest response sets for the cookie called name; the empty
\* string when it has no Set-Cookie line for it.
Sets(name) ==
    LET S == {i \in DOMAIN response.set_cookie : response.set_cookie[i].name = name}
    IN  IF S = {} THEN <<>> ELSE response.set_cookie[Min(S)].value

TimesSet(name) ==
    Cardinality({i \in DOMAIN response.set_cookie : response.set_cookie[i].name = name})

\* The headers of Headers, and the request without cookies, each with the
\* visit_count it carries, read by hand: none and a non-integer are 0; where
\* the name occurs twice it is the last occurrence; an integer is what int()
\* takes for one (a sign, white space around, "_" between digits).
CarriedVisitCount ==
    { <<<<>>, 0>>,
      <<<<"v", "i", "s", "i", "t", "_", "c", "o", "u", "n", "t", "=", "5">>, 5>>,
      <<<<"v", "i", "s", "i", "t", "_", "c", "o", "u", "n", "t", "=", "a", "b", "c">>, 0>>,
      <<<<"v", "i", "s", "i", "t", "_", "c", "o", "u", "n", "t", "=", "-", "1">>, -1>>,
      <<<<"v", "i", "s", "i", "t", "_", "c", "o", "u", "n", "t">>, 0>>,
      <<<<"v", "i", "s", "i", "t", "_", "c", "o", "u", "n", "t", "=", " ", "1", "_", "0", " ">>, 10>>,
      <<<<"s", "e", "s", "s", "i", "o", "n", "_", "i", "d", "=">>, 0>>,
      <<<<"s", "e", "s", "s", "i", "o", "n", "_", "i", "d", "=", "u", "7", ";", " ", "v", "i", "s", "i", "t", "_", "c", "o", "u", "n", "t", "=", "2">>, 2>>,
      <<<<"s", "e", "s", "s", "i", "o", "n", "_", "i", "d", "=", "u", "7", ";", " ", "s", "e", "s", "s", "i", "o", "n", "_", "i", "d", "=">>, 0>>,
      <<<<"v", "i", "s", "i", "t", "_", "c", "o", "u", "n", "t", "=", "5", ";", " ", "v", "i", "s", "i", "t", "_", "c", "o", "u", "n", "t", "=", "x">>, 0>>,
      <<<<"s", "i", "d", "=", "1", ";", "v", "i", "s", "i", "t", "_", "c", "o", "u", "n", "t", "=", "7", ";", "s", "e", "s", "s", "i", "o", "n", "_", "i", "d", "=", "a", "=", "b">>, 7>> }

\* The visit counts a jar may hold within MaxRequests requests.
JarCounts == 0 .. (11 + MaxRequests)

\* C18: every response sets visit_count once, to one more than the
\* visit_count the request carries (0 for none or a non-integer), both for the
\* headers read by hand and for a request that carries the jar; so for a
\* client that has replayed its cookies throughout, the k-th response sets
\* visit_count = k; and the page is the first-visit page exactly when the
\* visit_count set is 1.
VisitCountIsOneMore ==
    requests > 0 =>
        /\ TimesSet(StrVisitCount) = 1
        /\ \A p \in CarriedVisitCount :
              HTTP_COOKIE = p[1] => Sets(StrVisitCount) = str(p[2] + 1)
        /\ \A n \in JarCounts :
              /\ HTTP_COOKIE = CookieHeader(response.jar)
              /\ response.jar.visit_count = str(n)
              => Sets(StrVisitCount) = str(n + 1)
        /\ replayed => Sets(StrVisitCount) = str(requests)
        /\ response.page = "first-visit" <=> Sets(StrVisitCount) = str(1)

\* A replaying client has its third answer, a returning-visit page.
ThirdReplayedVisit ==
    /\ replayed
    /\ requests = 3
    /\ Sets(StrVisitCount) = str(3)
    /\ response.page = "returning"

\* Where a cookie begins in a header: at its start, or after ";" and at most
\* one blank.
BeginsCookie(header, i) ==
    \/ i = 1
    \/ header[i - 1] = ";"
    \/ i > 2 /\ header[i - 1] = " " /\ header[i - 2] = ";"

\* The request carries a session_id cookie with a non-empty value.
CarriesSessionId(header) ==
    \E i \in DOMAIN header :
        /\ BeginsCookie(header, i)
        /\ i + Len(StrSessionId) + 1 <= Len(header)
        /\ SubSeq(header, i, i + Len(StrSessionId)) = StrSessionId \o <<"=">>
        /\ header[i + Len(StrSessionId) + 1] # ";"

\* C19: a response sets the session_id cookie if and only if the request
\* carries no session_id cookie with a non-empty value.
SessionIdSetIffNoneCarried ==
    requests > 0 =>
        (TimesSet(StrSessionId) > 0 <=> ~CarriesSessionId(HTTP_COOKIE))

====
